---- MODULE Spec2Model ----
(***************************************************************************)
(* Model of the LLJS::Threading namespace: threads, mutexes and counting   *)
(* semaphores kept in three std::map registries keyed by ids from three    *)
(* atomic counters, all guarded by one std::mutex globalMutex.             *)
(*                                                                         *)
(* A process of the model is a native thread: Main is the thread that      *)
(* loaded the addon, process i >= 1 is the std::thread that CreateThread   *)
(* constructed for ThreadInfo id i.  Every exported function is cut into   *)
(* the steps at which it can be observed by, or has to wait for, another   *)
(* thread: the part before the lock_guard, the acquisition of globalMutex, *)
(* the native blocking call made while the guard is held, and the return.  *)
(***************************************************************************)
EXTENDS Integers, Sequences, FiniteSets, TLC

\* ------------------------------------------------------------------ bounds
MaxThreads == 2     \* thread ids CreateThread may issue
MaxMutexes == 1     \* mutex ids CreateMutex may issue
MaxSems == 1        \* semaphore ids CreateSemaphore may issue
MaxCount == 2       \* largest maxCount passed to CreateSemaphore
MaxCalls == 5       \* calls made in all, in the specifications without scripts

\* ------------------------------------------------------------------ values
Main == 0
NoThread == 0 - 1
Workers == 1..MaxThreads
Procs == {Main} \cup Workers

ThreadIds == 1..(MaxThreads + 1)
MutexIds == 1..(MaxMutexes + 1)
SemIds == 1..(MaxSems + 1)

\* int timeout = -1 when the argument is absent; any number is passed through
InfiniteTimeout == 0 - 1
Timeouts == {InfiniteTimeout, 0, 50}

\* The timeout as JavaScript passes it: no argument, or a whole number, here
\* written low + wraps * 2^32 with low within int.
NoArgument == [given |-> FALSE, wraps |-> 0, low |-> 0]
Number(wraps, low) == [given |-> TRUE, wraps |-> wraps, low |-> low]

\* Napi::Number::Int32Value(): the bottom 32 bits of the number
Int32Value(n) == n.low

\* int timeout = -1; if (info.Length() > 1 && info[1].IsNumber()) timeout = ...
TimeoutArgument(argument) ==
    IF argument.given THEN Int32Value(argument) ELSE InfiniteTimeout

\* no timed wait is computing a deadline
NoDeadline == [pc |-> "none"]

NoOp == [name |-> "none"]
NoRet == [name |-> "none"]

VARIABLES
    threadCounter, mutexCounter, semaphoreCounter,  \* the three id counters
    threads, mutexes, semaphores,   \* the three registries
    globalMutex,    \* the thread that holds the one global lock, or NoThread
    win32,          \* the build: _WIN32 defined or not
    exception,      \* per worker: what became of the exception its work raised
    deadline,       \* the timespec a timed POSIX wait is computing, and from what
    pc, op,         \* where each thread is, and the locals of its call
    last,           \* the return that has just happened
    calls, script,  \* the callers: calls made so far, calls still to make
    holdCount,      \* per thread and mutex: locks that returned true less its unlocks
    tally,          \* per semaphore: initial count, successful waits, units signalled
    counter,        \* the shared counter of the scripted work
    consumed,       \* per thread id: the joins and detaches that succeeded on it
    issued,         \* per kind: the ids the creates have returned, in order
    scenario        \* the script the run was started with

vars == <<threadCounter, mutexCounter, semaphoreCounter, threads, mutexes,
          semaphores, globalMutex, win32, exception, deadline, pc, op, last,
          calls, script,
          holdCount, tally, counter, consumed, issued, scenario>>

registries == <<threads, mutexes, semaphores>>
counters == <<threadCounter, mutexCounter, semaphoreCounter>>

\* ------------------------------------------------------------------ std::map
InsertNothing(map, key, value) == map

Insert(map, key, value) ==
    [k \in DOMAIN map \cup {key} |-> IF k = key THEN value ELSE map[k]]

EraseNothing(map, key) == map

EraseFirst(map, key) == [k \in DOMAIN map \ {1} |-> map[k]]

Erase(map, key) == [k \in DOMAIN map \ {key} |-> map[k]]

Found(map, key) == key \in DOMAIN map

EmptyMap == [k \in {} |-> 0]

\* ------------------------------------------------------------------ records
ThreadInfoFirst(id) ==
    [id |-> 1, thread |-> 1, joinable |-> TRUE, running |-> TRUE, exitCode |-> 0]

ThreadInfo(id) ==
    [id |-> id, thread |-> id, joinable |-> TRUE, running |-> TRUE, exitCode |-> 0]

\* an entry that is given a std::mutex whatever its mode
MutexInfoPlain(id, recursive) ==
    [id |-> id, isRecursive |-> recursive, native |-> "mutex",
     owner |-> NoThread, depth |-> 0]

\* owner/depth are the state of the one native mutex object the entry owns
MutexInfo(id, recursive) ==
    [id |-> id, isRecursive |-> recursive,
     native |-> IF recursive THEN "recursive_mutex" ELSE "mutex",
     owner |-> NoThread, depth |-> 0]

\* osCount is the count of the native semaphore, currentCount the atomic mirror
SemaphoreInfo(id, initialCount, maxCount) ==
    [id |-> id, maxCount |-> maxCount, currentCount |-> initialCount,
     osCount |-> initialCount]

\* the highest id among those the creates of one kind have returned, or 0
Highest(ids) ==
    IF ids = <<>> THEN 0
    ELSE CHOOSE x \in {ids[i] : i \in DOMAIN ids} :
            \A i \in DOMAIN ids : ids[i] <= x

\* ------------------------------------------------------------------ returns
\* The function returns to its caller: the thread is outside the addon again.
\* last describes the return that has just happened (who, which call with
\* which arguments, the value, the JavaScript exception thrown if any) in the
\* state the return leaves; every other step clears it.
ReturnFrom(t, call, val, error) ==
    /\ pc' = [pc EXCEPT ![t] = "idle"]
    /\ op' = [op EXCEPT ![t] = NoOp]
    /\ last' = [name |-> call.name, thread |-> t, val |-> val, error |-> error,
                call |-> call]

Return(t, val, error) == ReturnFrom(t, op[t], val, error)

Goto(t, label) ==
    /\ pc' = [pc EXCEPT ![t] = label]
    /\ last' = NoRet

\* a guard that does not keep others out while its holder waits for a mutex
GlobalFreeWhileLocking ==
    IF globalMutex = NoThread THEN TRUE ELSE pc[globalMutex] = "lock_wait"

\* std::lock_guard<std::mutex> lock(globalMutex) can be constructed
GlobalFree == globalMutex = NoThread

\* ------------------------------------------------------------------ threads
CreateThreadFailedRegistered(t, id) ==
    /\ threads' = Insert(threads, id, ThreadInfo(id))
    /\ ReturnFrom(t, [name |-> "createThread"], 0, "Failed to create thread")

\* the catch of CreateThread: threadInfo is dropped, the exception raised and
\* env.Null() returned
CreateThreadFailed(t, id) ==
    /\ threads' = threads
    /\ ReturnFrom(t, [name |-> "createThread"], 0, "Failed to create thread")

\* CreateThread up to the lock_guard: the id is taken and the std::thread is
\* constructed, which starts the work at once (or throws std::system_error).
BeginCreateThread(t, outcomes) ==
    /\ pc[t] = "idle"
    /\ threadCounter < MaxThreads
    /\ LET id == threadCounter + 1 IN
       /\ threadCounter' = id
       /\ \E started \in outcomes :
            IF started
            THEN /\ pc' = [pc EXCEPT ![t] = "ct_insert", ![id] = "idle"]
                 /\ op' = [op EXCEPT ![t] = [name |-> "createThread",
                                              threadInfo |-> ThreadInfo(id),
                                              floor |-> Highest(issued.threads)]]
                 /\ last' = NoRet
                 /\ threads' = threads
            ELSE CreateThreadFailed(t, id)
    /\ UNCHANGED <<mutexCounter, semaphoreCounter, mutexes, semaphores, globalMutex,
                   win32, exception, deadline, consumed, issued, holdCount, tally, counter>>

\* threads[threadId] = std::move(threadInfo) under the guard, then the handle
CreateThreadInsert(t) ==
    /\ pc[t] = "ct_insert"
    /\ GlobalFree
    /\ threads' = Insert(threads, op[t].threadInfo.id, op[t].threadInfo)
    /\ issued' = [issued EXCEPT !.threads = Append(@, op[t].threadInfo.id)]
    /\ Return(t, op[t].threadInfo.id, "")
    /\ UNCHANGED <<calls, script, scenario>>
    /\ UNCHANGED <<counters, mutexes, semaphores, globalMutex, win32, exception, deadline, consumed,
                   holdCount, tally, counter>>

BeginJoinThread(t, threadId) ==
    /\ pc[t] = "idle"
    /\ pc' = [pc EXCEPT ![t] = "join_lock"]
    /\ op' = [op EXCEPT ![t] = [name |-> "joinThread", threadId |-> threadId]]
    /\ last' = NoRet
    /\ UNCHANGED <<counters, registries, globalMutex, win32, exception, deadline, consumed, issued, holdCount, tally,
                   counter>>

\* the guard is taken and threads.find runs; the guard is kept on a hit
JoinThreadLock(t) ==
    /\ pc[t] = "join_lock"
    /\ GlobalFree
    /\ IF Found(threads, op[t].threadId)
       THEN /\ globalMutex' = t
            /\ Goto(t, "join_wait")
            /\ op' = op
       ELSE /\ globalMutex' = globalMutex
            /\ Return(t, 0 - 1, "Invalid thread handle")
    /\ UNCHANGED <<calls, script, scenario>>
    /\ UNCHANGED <<counters, registries, win32, exception, deadline, consumed, issued, holdCount, tally, counter>>

JoinedAtOnce(info) == TRUE

\* thread->join() can return: the work of the joined thread has returned
Joined(info) == info.joinable => pc[info.thread] = "done"

\* thread->join() with the guard held, then the erase and the exit code.
\* A thread that joins itself gets resource_deadlock_would_occur, which the
\* catch turns into -1 with the entry left in place.
JoinThreadWait(t) ==
    /\ pc[t] = "join_wait"
    /\ LET info == threads[op[t].threadId] IN
       IF info.joinable /\ info.thread = t
       THEN /\ threads' = threads
            /\ consumed' = consumed
            /\ Return(t, 0 - 1, "Failed to join thread")
       ELSE /\ Joined(info)
            /\ threads' = Erase(threads, op[t].threadId)
            /\ consumed' = [consumed EXCEPT ![op[t].threadId] = Append(@, "joinThread")]
            /\ Return(t, info.exitCode, "")
    /\ globalMutex' = NoThread
    /\ UNCHANGED <<calls, script, scenario>>
    /\ UNCHANGED <<counters, mutexes, semaphores, win32, exception, deadline, issued, holdCount, tally,
                   counter>>

BeginDetachThread(t, threadId) ==
    /\ pc[t] = "idle"
    /\ pc' = [pc EXCEPT ![t] = "detach_lock"]
    /\ op' = [op EXCEPT ![t] = [name |-> "detachThread", threadId |-> threadId]]
    /\ last' = NoRet
    /\ UNCHANGED <<counters, registries, globalMutex, win32, exception, deadline, consumed, issued, holdCount, tally,
                   counter>>

\* the whole guarded body: find, detach, erase; nothing in it blocks
DetachThreadLock(t) ==
    /\ pc[t] = "detach_lock"
    /\ GlobalFree
    /\ IF Found(threads, op[t].threadId)
       THEN /\ threads' = Erase(threads, op[t].threadId)
            /\ consumed' = [consumed EXCEPT ![op[t].threadId] = Append(@, "detachThread")]
            /\ Return(t, TRUE, "")
       ELSE /\ threads' = threads
            /\ consumed' = consumed
            /\ Return(t, FALSE, "")
    /\ UNCHANGED <<calls, script, scenario>>
    /\ UNCHANGED <<counters, mutexes, semaphores, globalMutex, win32, exception, deadline, issued,
                   holdCount, tally, counter>>

\* the work passed to CreateThread returns; the lambda ends
WorkReturns(t) ==
    /\ t \in Workers
    /\ pc[t] = "idle"
    /\ pc' = [pc EXCEPT ![t] = "done"]
    /\ UNCHANGED <<counters, registries, globalMutex, win32, exception, deadline, consumed, issued, op,
                   holdCount, tally, counter>>
    /\ last' = NoRet

\* what func.Call leaves behind when the work raises.  The build defines
\* NAPI_DISABLE_CPP_EXCEPTIONS, so the raise is not a C++ exception and the
\* catch (...) around func.Call never sees it: the wrapper throws it again
\* as a JavaScript exception on the env the lambda captured, which is the
\* caller's env.  The call is made off the JavaScript thread, so whether the
\* exception is still there when the caller next runs is not determined.
WorkThrowOutcomes == {"lost", "pending"}

\* the work passed to CreateThread raises an exception; the lambda returns
WorkThrows(t) ==
    /\ t \in Workers
    /\ pc[t] = "idle"
    /\ pc' = [pc EXCEPT ![t] = "done"]
    /\ \E outcome \in WorkThrowOutcomes :
          exception' = [exception EXCEPT ![t] = outcome]
    /\ UNCHANGED <<counters, registries, globalMutex, win32, deadline, consumed, issued, op,
                   holdCount, tally, counter>>
    /\ last' = NoRet

\* ------------------------------------------------------------------ mutexes
\* CreateMutex up to the lock_guard: the id is taken, the native mutex built
BeginCreateMutex(t, recursive) ==
    /\ pc[t] = "idle"
    /\ mutexCounter < MaxMutexes
    /\ mutexCounter' = mutexCounter + 1
    /\ pc' = [pc EXCEPT ![t] = "cm_insert"]
    /\ op' = [op EXCEPT ![t] = [name |-> "createMutex",
                                 mutexInfo |-> MutexInfo(mutexCounter + 1, recursive),
                                 floor |-> Highest(issued.mutexes)]]
    /\ last' = NoRet
    /\ UNCHANGED <<threadCounter, semaphoreCounter, registries, globalMutex,
                   win32, exception, deadline, consumed, issued, holdCount, tally, counter>>

CreateMutexInsert(t) ==
    /\ pc[t] = "cm_insert"
    /\ GlobalFree
    /\ mutexes' = Insert(mutexes, op[t].mutexInfo.id, op[t].mutexInfo)
    /\ issued' = [issued EXCEPT !.mutexes = Append(@, op[t].mutexInfo.id)]
    /\ Return(t, op[t].mutexInfo.id, "")
    /\ UNCHANGED <<calls, script, scenario>>
    /\ UNCHANGED <<counters, threads, semaphores, globalMutex, win32, exception, deadline, consumed,
                   holdCount, tally, counter>>

\* LockMutex up to the lock_guard: the handle and the timeout are read
EnterLockMutex(t, mutexId, argument) ==
    /\ pc[t] = "idle"
    /\ pc' = [pc EXCEPT ![t] = "lock_lock"]
    /\ op' = [op EXCEPT ![t] = [name |-> "lockMutex", mutexId |-> mutexId,
                                 timeout |-> TimeoutArgument(argument),
                                 argument |-> argument]]
    /\ last' = NoRet
    /\ UNCHANGED <<counters, registries, globalMutex, win32, exception, deadline, consumed, issued, holdCount, tally,
                   counter>>

\* lockMutex called with the number timeout, which is within int
BeginLockMutex(t, mutexId, timeout) ==
    EnterLockMutex(t, mutexId, Number(0, timeout))

\* the guard is taken and mutexes.find runs; the guard is kept on a hit
LockMutexLock(t) ==
    /\ pc[t] = "lock_lock"
    /\ GlobalFree
    /\ IF Found(mutexes, op[t].mutexId)
       THEN /\ globalMutex' = t
            /\ Goto(t, "lock_wait")
            /\ op' = op
       ELSE /\ globalMutex' = globalMutex
            /\ Return(t, FALSE, "")
    /\ UNCHANGED <<calls, script, scenario>>
    /\ UNCHANGED <<counters, registries, win32, exception, deadline, consumed, issued, holdCount, tally, counter>>

\* a native mutex that its owner can take again whatever its mode
AcquirableByOwner(m, t) == m.owner = NoThread \/ m.owner = t

\* the native mutex can be taken by t now: it is free, or recursive and t's
Acquirable(m, t) == m.owner = NoThread \/ (m.isRecursive /\ m.owner = t)

Acquired(m, t) == [m EXCEPT !.owner = t, !.depth = @ + 1]

\* std::mutex::lock() by the thread that owns it is undefined: the build
\* either never returns or throws std::system_error into the catch.
SelfLockOutcomes == {"deadlock", "throws"}

\* lock() / try_lock_for() on the native mutex, made with the guard held.
\* No unlock can run while the guard is held, so a timed attempt that does
\* not succeed at once times out.
LockMutexWait(t) ==
    /\ pc[t] = "lock_wait"
    /\ LET id == op[t].mutexId
           m == mutexes[id]
           locked == /\ mutexes' = [mutexes EXCEPT ![id] = Acquired(m, t)]
                     /\ holdCount' = [holdCount EXCEPT ![t][id] = @ + 1]
                     /\ globalMutex' = NoThread
                     /\ Return(t, TRUE, "")
           failed == /\ mutexes' = mutexes
                     /\ holdCount' = holdCount
                     /\ globalMutex' = NoThread
                     /\ Return(t, FALSE, "")
       IN
       IF op[t].timeout = InfiniteTimeout
       THEN IF ~m.isRecursive /\ m.owner = t
            THEN \E outcome \in SelfLockOutcomes :
                    IF outcome = "throws"
                    THEN failed
                    ELSE /\ Goto(t, "lock_hung")
                         /\ UNCHANGED <<mutexes, holdCount, globalMutex, op>>
            ELSE Acquirable(m, t) /\ locked
       ELSE IF Acquirable(m, t) THEN locked ELSE failed
    /\ UNCHANGED <<calls, script, scenario>>
    /\ UNCHANGED <<counters, threads, semaphores, win32, exception, deadline, consumed, issued, tally, counter>>

BeginUnlockMutex(t, mutexId) ==
    /\ pc[t] = "idle"
    /\ pc' = [pc EXCEPT ![t] = "unlock_lock"]
    /\ op' = [op EXCEPT ![t] = [name |-> "unlockMutex", mutexId |-> mutexId]]
    /\ last' = NoRet
    /\ UNCHANGED <<counters, registries, globalMutex, win32, exception, deadline, consumed, issued, holdCount, tally,
                   counter>>

Released(m) ==
    IF m.depth <= 1
    THEN [m EXCEPT !.owner = NoThread, !.depth = 0]
    ELSE [m EXCEPT !.depth = @ - 1]

\* an unlock that takes the entry out of the registry with it
UnlockAndErase(map, id) == [k \in DOMAIN map \ {id} |-> map[k]]

\* it->second->mutex->unlock() on the entry found: the registry keeps its keys
Unlock(map, id) == [map EXCEPT ![id] = Released(@)]

\* unlock() by a thread that does not own the native mutex is undefined: the
\* build either releases it all the same or leaves it as it is.
ForeignUnlockOutcomes == {"released", "ignored"}

\* the whole guarded body: find, unlock, true; nothing in it blocks
UnlockMutexLock(t) ==
    /\ pc[t] = "unlock_lock"
    /\ GlobalFree
    /\ LET id == op[t].mutexId IN
       IF Found(mutexes, id)
       THEN /\ IF mutexes[id].owner = t
               THEN mutexes' = Unlock(mutexes, id)
               ELSE \E outcome \in ForeignUnlockOutcomes :
                       mutexes' = IF outcome = "released"
                                  THEN Unlock(mutexes, id)
                                  ELSE mutexes
            /\ holdCount' = [holdCount EXCEPT ![t][id] =
                                IF @ > 0 THEN @ - 1 ELSE @]
            /\ Return(t, TRUE, "")
       ELSE /\ mutexes' = mutexes
            /\ holdCount' = holdCount
            /\ Return(t, FALSE, "")
    /\ UNCHANGED <<calls, script, scenario>>
    /\ UNCHANGED <<counters, threads, semaphores, globalMutex, win32, exception, deadline, consumed, issued, tally,
                   counter>>

\* ------------------------------------------------------------------ semaphores
ValidIgnoringOrder(initialCount, maxCount) ==
    ~(initialCount < 0 \/ maxCount <= 0)

ValidSemaphoreParameters(initialCount, maxCount) ==
    ~(initialCount < 0 \/ maxCount <= 0 \/ initialCount > maxCount)

\* CreateSemaphore up to the lock_guard: the check of the parameters, the id,
\* and CreateSemaphoreA / sem_open, which may fail.
BeginCreateSemaphore(t, initialCount, maxCount, outcomes) ==
    /\ pc[t] = "idle"
    /\ IF ~ValidSemaphoreParameters(initialCount, maxCount)
       THEN /\ semaphoreCounter' = semaphoreCounter
            /\ ReturnFrom(t, [name |-> "createSemaphore",
                                initialCount |-> initialCount,
                                maxCount |-> maxCount],
                            0, "Invalid semaphore parameters")
       ELSE /\ semaphoreCounter < MaxSems
            /\ semaphoreCounter' = semaphoreCounter + 1
            /\ \E created \in outcomes :
                 IF created
                 THEN /\ pc' = [pc EXCEPT ![t] = "cs_insert"]
                      /\ op' = [op EXCEPT ![t] =
                                  [name |-> "createSemaphore",
                                   semInfo |-> SemaphoreInfo(semaphoreCounter + 1,
                                                             initialCount, maxCount),
                                   initialCount |-> initialCount,
                                   maxCount |-> maxCount,
                                   floor |-> Highest(issued.semaphores)]]
                      /\ last' = NoRet
                 ELSE ReturnFrom(t, [name |-> "createSemaphore",
                                     initialCount |-> initialCount,
                                     maxCount |-> maxCount],
                                 0, "Failed to create semaphore")
    /\ UNCHANGED <<threadCounter, mutexCounter, registries, globalMutex, win32, exception, deadline, consumed, issued,
                   holdCount, tally, counter>>

CreateSemaphoreInsert(t) ==
    /\ pc[t] = "cs_insert"
    /\ GlobalFree
    /\ semaphores' = Insert(semaphores, op[t].semInfo.id, op[t].semInfo)
    /\ tally' = [tally EXCEPT ![op[t].semInfo.id].initial = op[t].semInfo.currentCount]
    /\ issued' = [issued EXCEPT !.semaphores = Append(@, op[t].semInfo.id)]
    /\ Return(t, op[t].semInfo.id, "")
    /\ UNCHANGED <<calls, script, scenario>>
    /\ UNCHANGED <<counters, threads, mutexes, globalMutex, win32, exception, deadline, consumed, holdCount,
                   counter>>

\* WaitSemaphore up to the lock_guard: the handle and the timeout are read
EnterWaitSemaphore(t, semId, argument) ==
    /\ pc[t] = "idle"
    /\ pc' = [pc EXCEPT ![t] = "wait_lock"]
    /\ op' = [op EXCEPT ![t] = [name |-> "waitSemaphore", semId |-> semId,
                                 timeout |-> TimeoutArgument(argument),
                                 argument |-> argument, success |-> FALSE,
                                 before |-> <<>>]]
    /\ last' = NoRet
    /\ UNCHANGED <<counters, registries, globalMutex, win32, exception, deadline, consumed, issued, holdCount, tally,
                   counter>>

\* waitSemaphore called with the number timeout, which is within int
BeginWaitSemaphore(t, semId, timeout) ==
    EnterWaitSemaphore(t, semId, Number(0, timeout))

\* op[t].before remembers the entry as it was when the guard was taken
WaitSemaphoreLock(t) ==
    /\ pc[t] = "wait_lock"
    /\ GlobalFree
    /\ IF Found(semaphores, op[t].semId)
       THEN /\ globalMutex' = t
            /\ Goto(t, "wait_native")
            /\ op' = [op EXCEPT ![t].before = semaphores[op[t].semId]]
       ELSE /\ globalMutex' = globalMutex
            /\ Return(t, FALSE, "")
    /\ UNCHANGED <<calls, script, scenario>>
    /\ UNCHANGED <<counters, registries, win32, exception, deadline, consumed, issued, holdCount, tally, counter>>

SignaledAlways(s) == TRUE

\* result == WAIT_OBJECT_0, sem_wait(...) == 0: the native wait took a unit
Signaled(s) == s.osCount > 0

\* WaitForSingleObject / sem_wait / sem_timedwait with the guard held.  No
\* signal can run while the guard is held, so a timed wait on a count of 0
\* times out and a wait without a timeout stays where it is.
WaitSemaphoreNative(t) ==
    /\ pc[t] = "wait_native"
    /\ LET id == op[t].semId
           s == semaphores[id]
       IN
       /\ s.osCount > 0 \/ op[t].timeout # InfiniteTimeout
       /\ semaphores' = IF s.osCount > 0
                        THEN [semaphores EXCEPT ![id].osCount = @ - 1]
                        ELSE semaphores
       /\ op' = [op EXCEPT ![t].success = Signaled(s)]
    /\ Goto(t, "wait_count")
    /\ UNCHANGED <<calls, script, scenario>>
    /\ UNCHANGED <<counters, threads, mutexes, globalMutex, win32, exception, deadline, consumed, issued, holdCount,
                   tally, counter>>

DecrementTwice(s) == [s EXCEPT !.currentCount = @ - 2]

\* it->second->currentCount--
Decrement(s) == [s EXCEPT !.currentCount = @ - 1]

\* if (success) currentCount--; and the return, which drops the guard
WaitSemaphoreCount(t) ==
    /\ pc[t] = "wait_count"
    /\ LET id == op[t].semId IN
       IF op[t].success
       THEN /\ semaphores' = [semaphores EXCEPT ![id] = Decrement(@)]
            /\ tally' = [tally EXCEPT ![id].waited = @ + 1]
       ELSE /\ semaphores' = semaphores
            /\ tally' = tally
    /\ globalMutex' = NoThread
    /\ Return(t, op[t].success, "")
    /\ UNCHANGED <<calls, script, scenario>>
    /\ UNCHANGED <<counters, threads, mutexes, win32, exception, deadline, consumed, issued, holdCount, counter>>

NothingToReleaseBelowZero(count) == count < 0

\* if (count <= 0)
NothingToRelease(count) == count <= 0

\* SignalSemaphore up to the lock_guard: count <= 0 returns -1 at once
BeginSignalSemaphore(t, semId, count) ==
    /\ pc[t] = "idle"
    /\ IF NothingToRelease(count)
       THEN ReturnFrom(t, [name |-> "signalSemaphore", semId |-> semId,
                             count |-> count], 0 - 1, "")
       ELSE /\ pc' = [pc EXCEPT ![t] = "signal_lock"]
            /\ op' = [op EXCEPT ![t] = [name |-> "signalSemaphore", semId |-> semId,
                                         count |-> count, previousCount |-> 0,
                                         i |-> 0, before |-> <<>>]]
            /\ last' = NoRet
    /\ UNCHANGED <<counters, registries, globalMutex, win32, exception, deadline, consumed, issued, holdCount, tally,
                   counter>>

\* op[t].before remembers the registries as they were when the guard was taken
SignalSemaphoreLock(t) ==
    /\ pc[t] = "signal_lock"
    /\ GlobalFree
    /\ IF Found(semaphores, op[t].semId)
       THEN /\ globalMutex' = t
            /\ Goto(t, "signal_check")
            /\ op' = [op EXCEPT ![t].before = registries]
       ELSE /\ globalMutex' = globalMutex
            /\ Return(t, 0 - 1, "")
    /\ UNCHANGED <<calls, script, scenario>>
    /\ UNCHANGED <<counters, registries, win32, exception, deadline, consumed, issued, holdCount, tally, counter>>

OverflowsByTwo(s, count) == s.currentCount + count > s.maxCount + 1

\* previousCount + count > it->second->maxCount
Overflows(s, count) == s.currentCount + count > s.maxCount

\* previousCount = currentCount.load() and the check against maxCount
SignalSemaphoreCheck(t) ==
    /\ pc[t] = "signal_check"
    /\ LET s == semaphores[op[t].semId] IN
       IF Overflows(s, op[t].count)
       THEN /\ globalMutex' = NoThread
            /\ Return(t, 0 - 1, "")
       ELSE /\ globalMutex' = globalMutex
            /\ Goto(t, "signal_post")
            /\ op' = [op EXCEPT ![t].previousCount = s.currentCount]
    /\ UNCHANGED <<calls, script, scenario>>
    /\ UNCHANGED <<counters, registries, win32, exception, deadline, consumed, issued, holdCount, tally, counter>>

\* ReleaseSemaphore(h, count, NULL) releases all of count or, past the
\* maximum the native semaphore was created with, nothing; the sem_post loop
\* posts once per step (sem_post on a valid semaphore fails only past
\* SEM_VALUE_MAX, which no int maxCount exceeds).
SignalSemaphorePost(t) ==
    /\ pc[t] = "signal_post"
    /\ LET id == op[t].semId
           s == semaphores[id]
       IN
       IF win32
       THEN IF s.osCount + op[t].count > s.maxCount
            THEN /\ semaphores' = semaphores
                 /\ globalMutex' = NoThread
                 /\ Return(t, 0 - 1, "")
            ELSE /\ semaphores' = [semaphores EXCEPT ![id].osCount = @ + op[t].count]
                 /\ globalMutex' = globalMutex
                 /\ Goto(t, "signal_count")
                 /\ op' = op
       ELSE /\ semaphores' = [semaphores EXCEPT ![id].osCount = @ + 1]
            /\ globalMutex' = globalMutex
            /\ op' = [op EXCEPT ![t].i = @ + 1]
            /\ Goto(t, IF op[t].i + 1 < op[t].count THEN "signal_post"
                                                    ELSE "signal_count")
    /\ UNCHANGED <<calls, script, scenario>>
    /\ UNCHANGED <<counters, threads, mutexes, win32, exception, deadline, consumed, issued, holdCount, tally, counter>>

AddOne(s, count) == [s EXCEPT !.currentCount = @ + 1]

\* it->second->currentCount += count
AddCount(s, count) == [s EXCEPT !.currentCount = @ + count]

\* currentCount += count; and the return of previousCount, which drops the guard
SignalSemaphoreCount(t) ==
    /\ pc[t] = "signal_count"
    /\ LET id == op[t].semId IN
       /\ semaphores' = [semaphores EXCEPT ![id] = AddCount(@, op[t].count)]
       /\ tally' = [tally EXCEPT ![id].signalled = @ + op[t].count]
    /\ globalMutex' = NoThread
    /\ Return(t, op[t].previousCount, "")
    /\ UNCHANGED <<calls, script, scenario>>
    /\ UNCHANGED <<counters, threads, mutexes, win32, exception, deadline, consumed, issued, holdCount, counter>>

\* ------------------------------------------------------------------ callers
InitialCounts == (0 - 1)..MaxCount
MaxCounts == 0..MaxCount
SignalCounts == 0..MaxCount

\* a thread outside the addon calls one exported function with any arguments
\* the call is one of the MaxCalls calls of the run
Counted ==
    /\ calls < MaxCalls
    /\ calls' = calls + 1
    /\ UNCHANGED <<script, scenario>>

CallThreads(t) ==
    \/ BeginCreateThread(t, BOOLEAN) /\ Counted
    \/ \E id \in ThreadIds : BeginJoinThread(t, id) /\ Counted
    \/ \E id \in ThreadIds : BeginDetachThread(t, id) /\ Counted

CallMutexes(t) ==
    \/ \E recursive \in BOOLEAN : BeginCreateMutex(t, recursive) /\ Counted
    \/ \E id \in MutexIds, timeout \in Timeouts :
          BeginLockMutex(t, id, timeout) /\ Counted
    \/ \E id \in MutexIds : BeginUnlockMutex(t, id) /\ Counted

CallSemaphores(t) ==
    \/ \E initialCount \in InitialCounts, maxCount \in MaxCounts :
          BeginCreateSemaphore(t, initialCount, maxCount, BOOLEAN) /\ Counted
    \/ \E id \in SemIds, timeout \in Timeouts :
          BeginWaitSemaphore(t, id, timeout) /\ Counted
    \/ \E id \in SemIds, count \in SignalCounts :
          BeginSignalSemaphore(t, id, count) /\ Counted

\* a thread inside the addon takes its next step
StepThreads(t) ==
    \/ CreateThreadInsert(t)
    \/ JoinThreadLock(t)
    \/ JoinThreadWait(t)
    \/ DetachThreadLock(t)

StepMutexes(t) ==
    \/ CreateMutexInsert(t)
    \/ LockMutexLock(t)
    \/ LockMutexWait(t)
    \/ UnlockMutexLock(t)

StepSemaphores(t) ==
    \/ CreateSemaphoreInsert(t)
    \/ WaitSemaphoreLock(t)
    \/ WaitSemaphoreNative(t)
    \/ WaitSemaphoreCount(t)
    \/ SignalSemaphoreLock(t)
    \/ SignalSemaphoreCheck(t)
    \/ SignalSemaphorePost(t)
    \/ SignalSemaphoreCount(t)

Step(t) == StepThreads(t) \/ StepMutexes(t) \/ StepSemaphores(t)

Exit(t) == WorkReturns(t) /\ UNCHANGED <<calls, script, scenario>>

\* the work of thread t ends by raising
Throw(t) == WorkThrows(t) /\ UNCHANGED <<calls, script, scenario>>

\* ------------------------------------------------------------------ scripts
\* The work of the shared-counter test: counter := counter + 1 as a read and
\* a write, which only the mutex around it makes atomic.
BeginIncrement(t) ==
    /\ pc[t] = "idle"
    /\ pc' = [pc EXCEPT ![t] = "incr_write"]
    /\ op' = [op EXCEPT ![t] = [name |-> "increment", read |-> counter]]
    /\ last' = NoRet
    /\ UNCHANGED <<counters, registries, globalMutex, win32, exception, deadline, consumed, issued, holdCount, tally,
                   counter>>

IncrementWrite(t) ==
    /\ pc[t] = "incr_write"
    /\ counter' = op[t].read + 1
    /\ pc' = [pc EXCEPT ![t] = "idle"]
    /\ op' = [op EXCEPT ![t] = NoOp]
    /\ last' = NoRet
    /\ UNCHANGED <<counters, registries, globalMutex, win32, exception, deadline, consumed, issued, holdCount, tally,
                   calls, script, scenario>>

\* a thread outside the addon makes the next call of its script
RunScript(t) ==
    /\ pc[t] = "idle"
    /\ script[t] # <<>>
    /\ script' = [script EXCEPT ![t] = Tail(@)]
    /\ UNCHANGED <<calls, scenario>>
    /\ LET c == Head(script[t]) IN
       CASE c.name = "createThread" -> BeginCreateThread(t, {TRUE})
         [] c.name = "joinThread" -> BeginJoinThread(t, c.threadId)
         [] c.name = "detachThread" -> BeginDetachThread(t, c.threadId)
         [] c.name = "createMutex" -> BeginCreateMutex(t, c.recursive)
         [] c.name = "lockMutex" -> BeginLockMutex(t, c.mutexId, c.timeout)
         [] c.name = "unlockMutex" -> BeginUnlockMutex(t, c.mutexId)
         [] c.name = "createSemaphore" ->
               BeginCreateSemaphore(t, c.initialCount, c.maxCount, {TRUE})
         [] c.name = "waitSemaphore" -> BeginWaitSemaphore(t, c.semId, c.timeout)
         [] c.name = "signalSemaphore" -> BeginSignalSemaphore(t, c.semId, c.count)
         [] c.name = "increment" -> BeginIncrement(t)
         [] c.name = "exit" -> WorkReturns(t)

CreateThreadC == [name |-> "createThread"]
JoinThreadC(id) == [name |-> "joinThread", threadId |-> id]
DetachThreadC(id) == [name |-> "detachThread", threadId |-> id]
CreateMutexC(recursive) == [name |-> "createMutex", recursive |-> recursive]
LockMutexC(id, timeout) == [name |-> "lockMutex", mutexId |-> id, timeout |-> timeout]
UnlockMutexC(id) == [name |-> "unlockMutex", mutexId |-> id]
CreateSemaphoreC(initialCount, maxCount) ==
    [name |-> "createSemaphore", initialCount |-> initialCount, maxCount |-> maxCount]
WaitSemaphoreC(id, timeout) == [name |-> "waitSemaphore", semId |-> id, timeout |-> timeout]
SignalSemaphoreC(id, count) == [name |-> "signalSemaphore", semId |-> id, count |-> count]
IncrementC == [name |-> "increment"]
ExitC == [name |-> "exit"]

Repeat(n, x) == [i \in 1..n |-> x]

\* n workers, each incrementing the counter once under mutex 1; Main joins all
CounterScript(n) ==
    [t \in Procs |->
        IF t = Main
        THEN <<CreateMutexC(FALSE)>> \o Repeat(n, CreateThreadC)
                \o [i \in 1..n |-> JoinThreadC(i)]
        ELSE <<LockMutexC(1, InfiniteTimeout), IncrementC, UnlockMutexC(1), ExitC>>]

\* Main holds mutex 1 while worker 1 blocks on it, then unlocks and joins
HandoffScript ==
    [t \in Procs |->
        IF t = Main
        THEN <<CreateMutexC(FALSE), LockMutexC(1, InfiniteTimeout), CreateThreadC,
               UnlockMutexC(1), JoinThreadC(1)>>
        ELSE <<LockMutexC(1, InfiniteTimeout), UnlockMutexC(1), ExitC>>]

\* as HandoffScript, with the worker detached before the unlock
DetachScript ==
    [t \in Procs |->
        IF t = Main
        THEN <<CreateMutexC(FALSE), LockMutexC(1, InfiniteTimeout), CreateThreadC,
               DetachThreadC(1), UnlockMutexC(1)>>
        ELSE <<LockMutexC(1, InfiniteTimeout), UnlockMutexC(1), ExitC>>]

\* worker 1 waits on an empty semaphore that Main then signals
SemaphoreScript ==
    [t \in Procs |->
        IF t = Main
        THEN <<CreateSemaphoreC(0, 1), CreateThreadC, SignalSemaphoreC(1, 1)>>
        ELSE <<WaitSemaphoreC(1, InfiniteTimeout), ExitC>>]

\* Main holds mutex 1; worker 1 locks it without a timeout, the later workers
\* with a timeout of 50 ms, or of 0
TimedScript(timeout) ==
    [t \in Procs |->
        IF t = Main
        THEN <<CreateMutexC(FALSE), LockMutexC(1, InfiniteTimeout)>>
                \o Repeat(MaxThreads, CreateThreadC) \o <<UnlockMutexC(1)>>
        ELSE IF t = 1
        THEN <<LockMutexC(1, InfiniteTimeout), UnlockMutexC(1), ExitC>>
        ELSE <<LockMutexC(1, timeout), ExitC>>]

\* Main joins worker 1, whose work makes one call that never blocks by itself
WorkCalls == {CreateMutexC(FALSE), CreateSemaphoreC(1, 1), UnlockMutexC(1),
              SignalSemaphoreC(1, 1)}

WorkScript(c) ==
    [t \in Procs |->
        IF t = Main THEN <<CreateThreadC, JoinThreadC(1)>> ELSE <<c, ExitC>>]

Scenarios ==
    {[name |-> "counter", n |-> n, script |-> CounterScript(n)] : n \in 1..MaxThreads}
    \cup {[name |-> "handoff", script |-> HandoffScript],
          [name |-> "detach", script |-> DetachScript],
          [name |-> "semaphore", script |-> SemaphoreScript],
          [name |-> "timed", timeout |-> 50, script |-> TimedScript(50)],
          [name |-> "timed", timeout |-> 0, script |-> TimedScript(0)]}
    \cup {[name |-> "work", call |-> c, script |-> WorkScript(c)] : c \in WorkCalls}

Init ==
    /\ threadCounter = 0
    /\ mutexCounter = 0
    /\ semaphoreCounter = 0
    /\ threads = EmptyMap
    /\ mutexes = EmptyMap
    /\ semaphores = EmptyMap
    /\ globalMutex = NoThread
    /\ win32 \in BOOLEAN
    /\ exception = [t \in Workers |-> "none"]
    /\ deadline = NoDeadline
    /\ pc = [t \in Procs |-> IF t = Main THEN "idle" ELSE "unborn"]
    /\ op = [t \in Procs |-> NoOp]
    /\ last = NoRet
    /\ calls = 0
    /\ script = [t \in Procs |-> <<>>]
    /\ holdCount = [t \in Procs |-> [m \in 1..MaxMutexes |-> 0]]
    /\ tally = [s \in 1..MaxSems |-> [initial |-> 0, waited |-> 0, signalled |-> 0]]
    /\ counter = 0
    /\ consumed = [h \in ThreadIds |-> <<>>]
    /\ issued = [threads |-> <<>>, mutexes |-> <<>>, semaphores |-> <<>>]
    /\ scenario = [name |-> "any"]

InitScript ==
    /\ threadCounter = 0
    /\ mutexCounter = 0
    /\ semaphoreCounter = 0
    /\ threads = EmptyMap
    /\ mutexes = EmptyMap
    /\ semaphores = EmptyMap
    /\ globalMutex = NoThread
    /\ win32 \in BOOLEAN
    /\ exception = [t \in Workers |-> "none"]
    /\ deadline = NoDeadline
    /\ pc = [t \in Procs |-> IF t = Main THEN "idle" ELSE "unborn"]
    /\ op = [t \in Procs |-> NoOp]
    /\ last = NoRet
    /\ calls = 0
    /\ \E sc \in Scenarios :
          /\ script = sc.script
          /\ scenario = [x \in DOMAIN sc \ {"script"} |-> sc[x]]
    /\ holdCount = [t \in Procs |-> [m \in 1..MaxMutexes |-> 0]]
    /\ tally = [s \in 1..MaxSems |-> [initial |-> 0, waited |-> 0, signalled |-> 0]]
    /\ counter = 0
    /\ consumed = [h \in ThreadIds |-> <<>>]
    /\ issued = [threads |-> <<>>, mutexes |-> <<>>, semaphores |-> <<>>]

\* every exported function, MaxCalls calls in all
Next ==
    \E t \in Procs :
        \/ CallThreads(t)
        \/ CallMutexes(t)
        \/ CallSemaphores(t)
        \/ Step(t)
        \/ Exit(t)
        \/ Throw(t)

Spec == Init /\ [][Next]_vars

\* threads and mutexes only
NextMutex ==
    \E t \in Procs :
        \/ CallThreads(t)
        \/ CallMutexes(t)
        \/ StepThreads(t)
        \/ StepMutexes(t)
        \/ Exit(t)

SpecMutex == Init /\ [][NextMutex]_vars

\* threads and semaphores only
NextSem ==
    \E t \in Procs :
        \/ CallThreads(t)
        \/ CallSemaphores(t)
        \/ StepThreads(t)
        \/ StepSemaphores(t)
        \/ Exit(t)

SpecSem == Init /\ [][NextSem]_vars

\* threads only
NextThread ==
    \E t \in Procs :
        \/ CallThreads(t)
        \/ StepThreads(t)
        \/ Exit(t)
        \/ Throw(t)

SpecThread == Init /\ [][NextThread]_vars

\* the three creates, with joinThread and detachThread
CallCreates(t) ==
    \/ \E recursive \in BOOLEAN : BeginCreateMutex(t, recursive) /\ Counted
    \/ \E initialCount \in InitialCounts, maxCount \in MaxCounts :
          BeginCreateSemaphore(t, initialCount, maxCount, BOOLEAN) /\ Counted

NextCreate ==
    \E t \in Procs :
        \/ CallThreads(t)
        \/ CallCreates(t)
        \/ StepThreads(t)
        \/ CreateMutexInsert(t)
        \/ CreateSemaphoreInsert(t)
        \/ Exit(t)

SpecCreate == Init /\ [][NextCreate]_vars

\* the three kinds together: threads are created, every thread uses the
\* mutexes, the main thread uses the semaphores
CallUse(t) ==
    \/ BeginCreateThread(t, BOOLEAN) /\ Counted
    \/ CallMutexes(t)
    \/ t = Main /\ CallSemaphores(t)

NextUse ==
    \E t \in Procs :
        \/ CallUse(t)
        \/ CreateThreadInsert(t)
        \/ StepMutexes(t)
        \/ StepSemaphores(t)
        \/ Exit(t)

SpecUse == Init /\ [][NextUse]_vars

\* every handle-based operation of the three kinds, on the handles the
\* creates can issue
CallGuarded(t) ==
    \/ BeginCreateThread(t, {TRUE}) /\ Counted
    \/ BeginCreateMutex(t, FALSE) /\ Counted
    \/ BeginCreateSemaphore(t, 0, 1, {TRUE}) /\ Counted
    \/ \E id \in Workers : BeginJoinThread(t, id) /\ Counted
    \/ \E id \in Workers : BeginDetachThread(t, id) /\ Counted
    \/ \E timeout \in Timeouts : BeginLockMutex(t, 1, timeout) /\ Counted
    \/ BeginUnlockMutex(t, 1) /\ Counted
    \/ \E timeout \in Timeouts : BeginWaitSemaphore(t, 1, timeout) /\ Counted
    \/ BeginSignalSemaphore(t, 1, 1) /\ Counted

NextGuarded ==
    \E t \in Procs :
        \/ CallGuarded(t)
        \/ Step(t)
        \/ Exit(t)

SpecGuarded == Init /\ [][NextGuarded]_vars

\* the timeouts a caller may pass: none, -1, 0, -2, 50 and 2^32 - 1
TimeoutArguments ==
    {NoArgument, Number(0, 0 - 1), Number(0, 0), Number(0, 0 - 2), Number(0, 50),
     Number(1, 0 - 1)}

\* lockMutex and waitSemaphore with every timeout, on a mutex and a semaphore
\* that other calls take and release
CallTimeouts(t) ==
    \/ BeginCreateThread(t, {TRUE}) /\ Counted
    \/ BeginCreateMutex(t, FALSE) /\ Counted
    \/ BeginCreateSemaphore(t, 1, 1, {TRUE}) /\ Counted
    \/ \E argument \in TimeoutArguments : EnterLockMutex(t, 1, argument) /\ Counted
    \/ BeginUnlockMutex(t, 1) /\ Counted
    \/ \E argument \in TimeoutArguments : EnterWaitSemaphore(t, 1, argument) /\ Counted
    \/ BeginSignalSemaphore(t, 1, 1) /\ Counted

NextTimeouts ==
    \E t \in Procs :
        \/ CallTimeouts(t)
        \/ CreateThreadInsert(t)
        \/ StepMutexes(t)
        \/ StepSemaphores(t)
        \/ Exit(t)

SpecTimeouts == Init /\ [][NextTimeouts]_vars

\* ------------------------------------------------------------------ deadline
\* The deadline of the timed wait of the POSIX build, as WaitSemaphore
\* computes it in its local ts
DeadlineTimeouts == {0, 1, 50, 500, 999, 1000, 1001, 1999, 2500, 60000}

\* what clock_gettime(CLOCK_REALTIME, &ts) can store: a valid timespec
ClockValues ==
    [tv_sec : {0, 1700000000},
     tv_nsec : {0, 1, 1000000, 500000000, 999000000, 999999999}]

\* the computation is local to the call: nothing else changes
DeadlineFrame ==
    UNCHANGED <<counters, registries, globalMutex, win32, exception, pc, op,
                last, calls, script, holdCount, tally, counter, consumed,
                issued, scenario>>

\* the timed branch is entered with a timeout other than -1
BeginDeadline(timeout) ==
    /\ ~win32
    /\ deadline = NoDeadline
    /\ deadline' = [pc |-> "clock_gettime", timeout |-> timeout]
    /\ DeadlineFrame

\* clock_gettime(CLOCK_REALTIME, &ts)
ClockGettime(now) ==
    /\ deadline.pc = "clock_gettime"
    /\ deadline' = [pc |-> "add_sec", timeout |-> deadline.timeout,
                    now |-> now, ts |-> now]
    /\ DeadlineFrame

\* ts.tv_sec += timeout / 1000
AddSeconds(ts, timeout) == [ts EXCEPT !.tv_sec = @ + (timeout \div 1000)]

\* ts.tv_nsec += (timeout % 1000) * 1000000
AddNanoseconds(ts, timeout) ==
    [ts EXCEPT !.tv_nsec = @ + (timeout % 1000) * 1000000]

DeadlineSeconds ==
    /\ deadline.pc = "add_sec"
    /\ deadline' = [deadline EXCEPT !.pc = "add_nsec",
                                    !.ts = AddSeconds(@, deadline.timeout)]
    /\ DeadlineFrame

\* after this step ts is what sem_timedwait is given
DeadlineNanoseconds ==
    /\ deadline.pc = "add_nsec"
    /\ deadline' = [deadline EXCEPT !.pc = "sem_timedwait",
                                    !.ts = AddNanoseconds(@, deadline.timeout)]
    /\ DeadlineFrame

NextDeadline ==
    \/ \E timeout \in DeadlineTimeouts : BeginDeadline(timeout)
    \/ \E now \in ClockValues : ClockGettime(now)
    \/ DeadlineSeconds
    \/ DeadlineNanoseconds

SpecDeadline == Init /\ [][NextDeadline]_vars

\* the scripted runs; a thread that can take a step is not held back for ever
ScriptNext(t) == RunScript(t) \/ Step(t) \/ IncrementWrite(t)

NextScript == \E t \in Procs : ScriptNext(t)

SpecScript ==
    InitScript /\ [][NextScript]_vars /\ \A t \in Procs : WF_vars(ScriptNext(t))

\* ------------------------------------------------------------------ claims
\* C1: a non-recursive mutex is held by at most one thread: between a
\* lockMutex that returned true for a thread and that thread's own unlockMutex
\* no lockMutex of another thread on the handle returns true.
C1_OneHolder ==
    \A m \in DOMAIN mutexes :
        ~mutexes[m].isRecursive =>
            Cardinality({t \in Procs : holdCount[t][m] > 0}) <= 1

\* C2: with n workers each doing lock, counter + 1, unlock on one mutex and
\* Main joining them all, every execution reaches the state where all joins
\* have returned and the counter is n.
C2_CounterReachesN ==
    <>(scenario.name = "counter" =>
          /\ pc[Main] = "idle"
          /\ script[Main] = <<>>
          /\ counter = scenario.n)

\* thread u is blocked in lockMutex without a timeout on a mutex that thread t
\* holds, and t has called unlockMutex on that handle
HolderUnlocks(t, u) ==
    /\ t # u
    /\ pc[u] = "lock_wait"
    /\ op[u].timeout = InfiniteTimeout
    /\ pc[t] = "unlock_lock"
    /\ op[t].mutexId = op[u].mutexId
    /\ mutexes[op[u].mutexId].owner = t

\* C3: a lockMutex without a timeout on a mutex another thread holds returns
\* true once the holder calls unlockMutex, and that unlockMutex completes.
C3_BlockedLockReturns ==
    \A t \in Procs, u \in Procs :
        /\ HolderUnlocks(t, u) ~> (pc[u] = "idle" /\ holdCount[u][1] > 0)
        /\ HolderUnlocks(t, u) ~> (pc[t] = "idle")

\* C4: joinThread on a live handle returns, whatever calls the work makes.
C4_JoinReturns ==
    \A t \in Procs : (pc[t] = "join_wait") ~> (pc[t] = "idle")

\* where a thread is inside a function that must return promptly
PromptLabels ==
    {"ct_insert", "detach_lock", "cm_insert", "unlock_lock", "cs_insert",
     "signal_lock", "signal_check", "signal_post", "signal_count"}

\* C5: detachThread, signalSemaphore, unlockMutex, createMutex,
\* createSemaphore and createThread complete whatever the other threads are
\* blocked in.
C5_PromptCallsComplete ==
    \A t \in Procs : (pc[t] \in PromptLabels) ~> (pc[t] = "idle")

\* the semaphores that exist: registered, or built and about to be
AllSemaphores ==
    {semaphores[s] : s \in DOMAIN semaphores}
        \cup {op[t].semInfo : t \in {u \in Procs : pc[u] = "cs_insert"}}

\* C6: 0 <= currentCount <= maxCount for every semaphore in every reachable
\* state, the states inside signalSemaphore and waitSemaphore included.
C6_CountWithinBounds ==
    \A s \in AllSemaphores : 0 <= s.currentCount /\ s.currentCount <= s.maxCount

\* a thread is inside signalSemaphore, the native release made and the mirror
\* not yet updated, with the native count at the maximum
C6_Witness ==
    \E t \in Procs :
        /\ pc[t] = "signal_count"
        /\ semaphores[op[t].semId].osCount = semaphores[op[t].semId].maxCount
        /\ semaphores[op[t].semId].currentCount < semaphores[op[t].semId].maxCount

\* a signalSemaphore(h, count) with count >= 1 on a registered handle has
\* just returned
SignalReturned ==
    /\ last.name = "signalSemaphore"
    /\ last.call.count >= 1
    /\ Found(semaphores, last.call.semId)

\* the entry of the signalled semaphore when the call took the guard
SignalledBefore == last.call.before[3][last.call.semId]

\* C7: signalSemaphore(h, count) with currentCount + count > maxCount returns
\* -1 and leaves the counts, native count included, and every registry as
\* they were.
C7_OverflowRejected ==
    (SignalReturned /\ SignalledBefore.currentCount + last.call.count
                            > SignalledBefore.maxCount)
        => /\ last.val = 0 - 1
           /\ registries = last.call.before

\* an overflowing signalSemaphore has returned on a semaphore that has units
C7_Witness ==
    /\ SignalReturned
    /\ SignalledBefore.currentCount + last.call.count > SignalledBefore.maxCount
    /\ SignalledBefore.currentCount >= 1
    /\ last.val = 0 - 1

\* C8: a successful signalSemaphore(h, count) returns the count as it was
\* before the call, leaves currentCount at that value plus count, and makes
\* count more waits able to succeed.
C8_SignalReturnsPrevious ==
    (SignalReturned /\ last.val >= 0)
        => LET now == semaphores[last.call.semId] IN
           /\ last.val = SignalledBefore.currentCount
           /\ now.currentCount = last.val + last.call.count
           /\ now.osCount = SignalledBefore.osCount + last.call.count

\* signalSemaphore(h, 2) has succeeded
C8_Witness ==
    /\ SignalReturned
    /\ last.val >= 0
    /\ last.call.count >= 2

\* a waitSemaphore on a registered handle has just returned
WaitReturned ==
    /\ last.name = "waitSemaphore"
    /\ Found(semaphores, last.call.semId)

\* the successful waits on the handle before the one that has just returned
WaitedBefore ==
    tally[last.call.semId].waited - (IF last.val THEN 1 ELSE 0)

\* C9: after createSemaphore(k, m) a waitSemaphore succeeds exactly while
\* fewer waits have succeeded than k plus the units signalled since: the first
\* k succeed, a further one with timeout 0 returns false, and the one after a
\* signalSemaphore(h, 1) succeeds.
C9_WaitsMatchCount ==
    WaitReturned
        => (last.val <=> WaitedBefore < tally[last.call.semId].initial
                                          + tally[last.call.semId].signalled)

\* created with k >= 1: k waits have succeeded, one unit was signalled, and
\* the wait after it has just returned true
C9_Witness ==
    /\ WaitReturned
    /\ last.val
    /\ tally[last.call.semId].initial >= 1
    /\ tally[last.call.semId].signalled = 1
    /\ tally[last.call.semId].waited = tally[last.call.semId].initial + 1

\* thread u is inside waitSemaphore without a timeout on a semaphore and
\* thread t has called signalSemaphore on that handle
SignalDuringWait(t, u) ==
    /\ t # u
    /\ pc[u] \in {"wait_lock", "wait_native"}
    /\ op[u].timeout = InfiniteTimeout
    /\ pc[t] = "signal_lock"
    /\ op[t].semId = op[u].semId

\* C10: a waitSemaphore without a timeout on a count of 0 returns true once
\* another thread signals the handle, and that signalSemaphore completes.
C10_BlockedWaitReturns ==
    \A t \in Procs, u \in Procs :
        /\ SignalDuringWait(t, u) ~> (pc[u] = "idle" /\ tally[1].waited > 0)
        /\ SignalDuringWait(t, u) ~> (pc[t] = "idle")

\* thread t has called lockMutex with a finite timeout
TimedLockCalled(t) ==
    /\ pc[t] \in {"lock_lock", "lock_wait"}
    /\ op[t].timeout # InfiniteTimeout

\* C11: a lockMutex with a finite timeout returns, whatever the other threads
\* are blocked in at that moment.
C11_TimedLockReturns ==
    \A t \in Procs : TimedLockCalled(t) ~> (pc[t] = "idle")

\* C12: on a recursive mutex, while a thread has more successful lockMutex
\* calls than unlockMutex calls of its own, no other thread has a lockMutex
\* that returned true and is not yet unlocked.
C12_RecursiveNeedsAllUnlocks ==
    \A m \in DOMAIN mutexes : \A t \in Procs, u \in Procs :
        (mutexes[m].isRecursive /\ t # u /\ holdCount[t][m] > 0)
            => holdCount[u][m] = 0

\* thread t, inside joinThread or detachThread on a handle on which a join or
\* a detach has succeeded, takes its step under the guard
LooksUpConsumed(t) ==
    /\ pc[t] \in {"join_lock", "detach_lock"}
    /\ consumed[op[t].threadId] # <<>>
    /\ pc'[t] # pc[t]

\* C13: once joinThread or detachThread has succeeded on a handle, every
\* joinThread or detachThread that looks the handle up afterwards, by any
\* thread and after any further creates, returns the not-found outcome (-1
\* with "Invalid thread handle", false) and changes no registry and no counter.
C13_ConsumedNeverResolves ==
    [][\A t \in Procs :
        LooksUpConsumed(t) =>
            /\ pc'[t] = "idle"
            /\ op[t].name = "joinThread" =>
                  (last'.val = 0 - 1 /\ last'.error = "Invalid thread handle")
            /\ op[t].name = "detachThread" => last'.val = FALSE
            /\ UNCHANGED <<registries, counters, consumed, globalMutex>>]_vars

\* a joinThread on a detached handle has returned not-found after a further
\* createThread
C13_Witness ==
    /\ last.name = "joinThread"
    /\ last.val = 0 - 1
    /\ consumed[last.call.threadId] = <<"detachThread">>
    /\ threadCounter > last.call.threadId
    /\ threads # EmptyMap

\* what joinThread gives its caller when threads.find misses the id: the
\* number -1 and the exception "Invalid thread handle"
NotFoundOutcome == <<0 - 1, "Invalid thread handle">>

\* a joinThread has just returned without finding the handle
JoinMissed ==
    /\ last.name = "joinThread"
    /\ ~Found(threads, last.call.threadId)
    /\ last.val = 0 - 1

\* C14: joinThread on a handle that was joined, and on one that was
\* detached, returns an outcome that differs from the one joinThread returns
\* on an id that was never issued.
C14_JoinOutcomesTellApart ==
    JoinMissed =>
        IF consumed[last.call.threadId] # <<>>
        THEN <<last.val, last.error>> # NotFoundOutcome
        ELSE <<last.val, last.error>> = NotFoundOutcome

\* C15: on every thread handle at most one joinThread or detachThread ever
\* succeeds, and while a joinThread is using an entry (it holds the guard and
\* waits in join()) the entry stays in the registry: no other call removes
\* or touches it.
C15_OneConsumer ==
    /\ \A h \in ThreadIds : Len(consumed[h]) <= 1
    /\ \A t \in Procs :
          pc[t] = "join_wait" =>
              /\ Found(threads, op[t].threadId)
              /\ globalMutex = t
              /\ consumed[op[t].threadId] = <<>>

\* a join or detach has just succeeded on a handle while another thread is
\* inside joinThread or detachThread on the same handle
C15_Witness ==
    /\ last.name \in {"joinThread", "detachThread"}
    /\ consumed[last.call.threadId] # <<>>
    /\ ~Found(threads, last.call.threadId)
    /\ IF last.name = "joinThread" THEN last.error = "" ELSE last.val
    /\ \E u \in Procs \ {last.thread} :
          /\ pc[u] \in {"join_lock", "detach_lock"}
          /\ op[u].threadId = last.call.threadId

\* a createThread, createMutex or createSemaphore has just returned a handle
CreateReturned ==
    /\ last.name \in {"createThread", "createMutex", "createSemaphore"}
    /\ last.error = ""

\* the ids one kind's creates have returned are >= 1 and all different
IssuedOnce(ids) ==
    \A i \in DOMAIN ids :
        /\ ids[i] >= 1
        /\ \A j \in DOMAIN ids : i # j => ids[i] # ids[j]

C17_IdsDifferAcrossKinds ==
    /\ DOMAIN threads \cap DOMAIN mutexes = {}
    /\ DOMAIN threads \cap DOMAIN semaphores = {}
    /\ DOMAIN mutexes \cap DOMAIN semaphores = {}

\* a joinThread that found its handle in the registry has just returned
JoinReturnedLive ==
    /\ last.name = "joinThread"
    /\ last.error # "Invalid thread handle"

\* C18 as stated: every joinThread on a live handle returns only after the
\* work has finished, returns 0 and leaves no entry for the handle.
C18_JoinReturnsAfterWork ==
    JoinReturnedLive =>
        /\ pc[last.call.threadId] = "done"
        /\ last.val = 0
        /\ ~Found(threads, last.call.threadId)

\* C18, amended: joinThread on a live handle called by another thread than
\* the handle's own returns only after the work has finished, returns 0 and
\* leaves no entry for the handle; called by the handle's own thread it fails
\* with -1 and "Failed to join thread" and leaves the entry in the registry.
C18_JoinByOtherReturnsAfterWork ==
    JoinReturnedLive =>
        IF last.thread # last.call.threadId
        THEN /\ pc[last.call.threadId] = "done"
             /\ last.val = 0
             /\ last.error = ""
             /\ ~Found(threads, last.call.threadId)
        ELSE /\ last.val = 0 - 1
             /\ last.error = "Failed to join thread"
             /\ Found(threads, last.call.threadId)

\* a worker has joined the other worker, whose work had returned
C18_Witness ==
    /\ JoinReturnedLive
    /\ last.thread \in Workers \ {last.call.threadId}
    /\ last.val = 0
    /\ pc[last.call.threadId] = "done"

\* thread t is inside detachThread on a live handle whose work is running
DetachesRunning(t) ==
    /\ pc[t] = "detach_lock"
    /\ Found(threads, op[t].threadId)
    /\ pc[op[t].threadId] # "done"

\* C19: detachThread on a live handle returns true, with the entry removed,
\* without waiting for the work to finish.
C19_DetachReturnsAtOnce ==
    \A t \in Procs :
        DetachesRunning(t) ~>
            (/\ last.name = "detachThread"
             /\ last.thread = t
             /\ last.val = TRUE
             /\ ~Found(threads, last.call.threadId))

\* C20: createThread returns a handle that the thread registry contains,
\* without waiting for the work it has started.
C20_CreateReturnsRegistered ==
    \A t \in Procs :
        (pc[t] = "ct_insert") ~>
            (/\ last.name = "createThread"
             /\ last.thread = t
             /\ last.error = ""
             /\ Found(threads, last.val))

\* thread t calls createThread and the native thread cannot be created
CreateThreadFails(t) ==
    /\ pc[t] = "idle"
    /\ last'.name = "createThread"
    /\ last'.thread = t
    /\ last'.error # ""

\* C21: a createThread whose native thread cannot be created raises an
\* error, returns no handle (null) and leaves the three registries as they
\* were: the id it had taken is not a key of the thread registry.
C21_FailedCreateLeavesNothing ==
    [][\A t \in Procs :
        CreateThreadFails(t) =>
            /\ last'.val = 0
            /\ last'.error = "Failed to create thread"
            /\ registries' = registries
            /\ ~Found(threads', threadCounter')]_vars

\* a createThread has failed after an earlier one had registered its thread
C21_Witness ==
    /\ last.name = "createThread"
    /\ last.error # ""
    /\ threadCounter = 2
    /\ DOMAIN threads = {1}

\* C22: createSemaphore(initial, max) fails exactly when initial < 0 or
\* max <= 0 or initial > max, returning no handle; otherwise it returns the
\* handle of a registered semaphore with currentCount = initial and
\* maxCount = max.
C22_CreateSemaphoreValidates ==
    last.name = "createSemaphore" =>
        LET initial == last.call.initialCount
            max == last.call.maxCount
        IN  IF initial < 0 \/ max <= 0 \/ initial > max
            THEN last.error # "" /\ last.val = 0
            ELSE /\ last.error = ""
                 /\ Found(semaphores, last.val)
                 /\ semaphores[last.val].currentCount = initial
                 /\ semaphores[last.val].maxCount = max

\* what a lockMutex or waitSemaphore whose timeout has expired gives its
\* caller: false, and no exception
TimedOutOutcome == <<FALSE, "">>

\* a lockMutex, unlockMutex or waitSemaphore on an id that no create has
\* issued has just returned
UnknownHandleReturned ==
    \/ /\ last.name \in {"lockMutex", "unlockMutex"}
       /\ last.call.mutexId > mutexCounter
    \/ /\ last.name = "waitSemaphore"
       /\ last.call.semId > semaphoreCounter

\* C23: lockMutex, unlockMutex and waitSemaphore on an id that was never
\* issued return an outcome that differs from the one of a timed-out lock or
\* wait.
C23_UnknownHandleTellsApart ==
    UnknownHandleReturned => <<last.val, last.error>> # TimedOutOutcome

\* thread t has called lockMutex or waitSemaphore with a timeout of 0
TryCalled(t) ==
    /\ pc[t] \in {"lock_lock", "wait_lock"}
    /\ op[t].timeout = 0

\* C24: lockMutex(h, 0) and waitSemaphore(h, 0) try once and do not block:
\* the call returns its true or false.
C24_TryOnceNeverBlocks ==
    \A t \in Procs :
        TryCalled(t) ~>
            (/\ last.name \in {"lockMutex", "waitSemaphore"}
             /\ last.thread = t
             /\ last.call.timeout = 0)

\* thread t, inside unlockMutex on a registered handle, takes its step
UnlockReturns(t) ==
    /\ pc[t] = "unlock_lock"
    /\ pc'[t] = "idle"
    /\ Found(mutexes, op[t].mutexId)

\* C25: unlockMutex by the thread that holds the mutex releases one level
\* and returns true; unlockMutex by a thread that does not hold it, or on a
\* mutex nobody holds, does not return true.
C25_UnlockSucceedsForHolderOnly ==
    [][\A t \in Procs :
        UnlockReturns(t) =>
            LET m == mutexes[op[t].mutexId] IN
            IF m.owner = t
            THEN /\ last'.val = TRUE
                 /\ mutexes'[op[t].mutexId] = Released(m)
            ELSE last'.val # TRUE]_vars

\* a joinThread that found the handle of a thread whose work raised
JoinedThrower ==
    /\ last.name = "joinThread"
    /\ last.error = ""
    /\ exception[last.call.threadId] # "none"

\* C26: an exception raised by the work stays in its thread: it is never
\* left pending on the caller's env, and a joinThread that finds the handle
\* returns exit code 0 and removes the entry.
C26_WorkExceptionStaysInThread ==
    /\ \A t \in Workers : exception[t] # "pending"
    /\ JoinedThrower =>
          /\ last.val = 0
          /\ ~Found(threads, last.call.threadId)

\* thread t returns from a timed lockMutex on the non-recursive mutex it holds
TimedSelfLockReturns(t) ==
    /\ pc[t] = "lock_wait"
    /\ pc'[t] = "idle"
    /\ op[t].timeout # InfiniteTimeout
    /\ ~mutexes[op[t].mutexId].isRecursive
    /\ mutexes[op[t].mutexId].owner = t

IssuedThreads == {issued.threads[i] : i \in DOMAIN issued.threads}

\* the thread handles a joinThread or a detachThread has succeeded on
ConsumedThreads == {h \in ThreadIds : consumed[h] # <<>>}

\* C28: the thread registry holds exactly the handles createThread has
\* returned and no joinThread or detachThread has yet succeeded on; when
\* every returned handle has been joined or detached it is empty.
C28_RegistryIsIssuedLessConsumed ==
    /\ DOMAIN threads = IssuedThreads \ ConsumedThreads
    /\ IssuedThreads \subseteq ConsumedThreads => threads = EmptyMap

C28_Witness ==
    /\ IssuedThreads = {1, 2}
    /\ ConsumedThreads = {1, 2}
    /\ threads = EmptyMap
    /\ last.name \in {"joinThread", "detachThread"}

\* every entry of the three registries has all its fields, its id is its key,
\* and a mutex entry owns the one native mutex its mode asks for
FullyConstructed ==
    /\ \A k \in DOMAIN threads :
          /\ DOMAIN threads[k] = DOMAIN ThreadInfo(k)
          /\ threads[k].id = k
          /\ threads[k].thread \in Workers
    /\ \A k \in DOMAIN mutexes :
          /\ DOMAIN mutexes[k] = DOMAIN MutexInfo(k, FALSE)
          /\ mutexes[k].id = k
          /\ mutexes[k].native =
                IF mutexes[k].isRecursive THEN "recursive_mutex" ELSE "mutex"
    /\ \A k \in DOMAIN semaphores :
          /\ DOMAIN semaphores[k] = DOMAIN SemaphoreInfo(k, 0, 1)
          /\ semaphores[k].id = k
          /\ semaphores[k].maxCount >= 1

\* a step leaves the mode of every mutex and the maxCount of every semaphore
ShapeKept ==
    /\ \A k \in DOMAIN mutexes \cap DOMAIN mutexes' :
          /\ mutexes'[k].isRecursive = mutexes[k].isRecursive
          /\ mutexes'[k].native = mutexes[k].native
    /\ \A k \in DOMAIN semaphores \cap DOMAIN semaphores' :
          semaphores'[k].maxCount = semaphores[k].maxCount

\* C29: every entry a lookup can find is fully constructed (all fields, id
\* equal to its key, a mutex with the one native object matching isRecursive)
\* and no step changes the isRecursive of a mutex or the maxCount of a
\* semaphore.
C29_EntriesKeepTheirShape == []FullyConstructed /\ [][ShapeKept]_vars

C29_Witness ==
    /\ Found(threads, 1)
    /\ Found(mutexes, 1)
    /\ mutexes[1].owner # NoThread
    /\ Found(semaphores, 1)
    /\ semaphores[1].currentCount # tally[1].initial

UseCalls == {"lockMutex", "unlockMutex", "waitSemaphore", "signalSemaphore"}

\* thread t takes a step of a lockMutex, unlockMutex, waitSemaphore or
\* signalSemaphore: it enters one, moves inside one, or returns from one
UseStep(t) ==
    \/ /\ op[t].name \in UseCalls
       /\ <<pc'[t], op'[t]>> # <<pc[t], op[t]>>
    \/ /\ pc[t] = "idle"
       /\ op'[t].name \in UseCalls
    \/ /\ pc[t] = "idle"
       /\ last'.name \in UseCalls
       /\ last'.thread = t

\* C30: no step of lockMutex, unlockMutex, waitSemaphore or signalSemaphore
\* adds or removes an entry of the thread, mutex or semaphore registry or
\* changes an id counter, whatever the other threads are doing.
C30_UseKeepsRegistryKeys ==
    [][\A t \in Procs :
        UseStep(t) =>
            /\ DOMAIN threads' = DOMAIN threads
            /\ DOMAIN mutexes' = DOMAIN mutexes
            /\ DOMAIN semaphores' = DOMAIN semaphores
            /\ counters' = counters]_vars

\* an unlockMutex has returned true while another thread is inside
\* unlockMutex on the same handle
C30_Witness ==
    /\ last.name = "unlockMutex"
    /\ last.val = TRUE
    /\ Found(mutexes, last.call.mutexId)
    /\ \E u \in Procs \ {last.thread} :
          /\ pc[u] = "unlock_lock"
          /\ op[u].mutexId = last.call.mutexId

\* thread t returns from waitSemaphore
WaitReturns(t) ==
    /\ op[t].name = "waitSemaphore"
    /\ pc'[t] = "idle"

\* C31: a waitSemaphore that returns true leaves currentCount one below what
\* it was when the call found the semaphore, and changes nothing else of the
\* mirror; one that returns false (timeout or unknown handle) leaves
\* currentCount and the count of the native semaphore as they were.
C31_WaitTakesOneOrNothing ==
    [][\A t \in Procs :
        WaitReturns(t) =>
            LET id == op[t].semId IN
            IF last'.val
            THEN /\ semaphores'[id].currentCount = op[t].before.currentCount - 1
                 /\ semaphores'[id].maxCount = op[t].before.maxCount
            ELSE IF Found(semaphores, id)
                 THEN /\ semaphores'[id] = op[t].before
                      /\ semaphores' = semaphores
                 ELSE semaphores' = semaphores]_vars

\* a wait returned true and a wait returned false on the same semaphore
C31_Witness ==
    /\ last.name = "waitSemaphore"
    /\ ~last.val
    /\ last.call.timeout # InfiniteTimeout
    /\ Found(semaphores, last.call.semId)
    /\ tally[last.call.semId].waited > 0
    /\ semaphores[last.call.semId].currentCount = last.call.before.currentCount

\* no thread is inside waitSemaphore or signalSemaphore
NoSemaphoreCallRunning ==
    \A t \in Procs : op[t].name \notin {"waitSemaphore", "signalSemaphore"}

\* C32: whenever no thread is inside waitSemaphore or signalSemaphore, the
\* currentCount of every semaphore equals the count of its native semaphore.
C32_MirrorEqualsNativeCount ==
    NoSemaphoreCallRunning =>
        \A id \in DOMAIN semaphores :
            semaphores[id].currentCount = semaphores[id].osCount

\* waits and signals have both succeeded, the last of them a signal of two
\* units, and every call has returned
C32_Witness ==
    /\ NoSemaphoreCallRunning
    /\ last.name = "signalSemaphore"
    /\ last.val >= 0
    /\ last.call.count = 2
    /\ tally[last.call.semId].waited > 0
    /\ semaphores[last.call.semId].currentCount = 2

\* thread t is past the registry lookup of a handle-based operation and has
\* not returned from it
Inside(t) ==
    pc[t] \in {"join_wait", "lock_wait", "lock_hung", "wait_native",
               "wait_count", "signal_check", "signal_post", "signal_count"}

\* thread t makes the registry lookup of a handle-based operation
LooksUp(t) ==
    /\ pc[t] \in {"join_lock", "detach_lock", "lock_lock", "unlock_lock",
                   "wait_lock", "signal_lock"}
    /\ pc'[t] # pc[t]

\* C33: at most one thread is past the lookup of joinThread, detachThread,
\* lockMutex, unlockMutex, waitSemaphore or signalSemaphore and not yet
\* returned, that thread holds the global lock, and no thread makes its
\* lookup while another is there, blocked or not.
C33_HandleOperationsExclude ==
    /\ [](\A t \in Procs : Inside(t) =>
              /\ globalMutex = t
              /\ \A u \in Procs \ {t} : ~Inside(u))
    /\ [][\A t \in Procs :
            LooksUp(t) => \A u \in Procs \ {t} : ~Inside(u)]_vars

\* a thread is blocked inside joinThread while one thread stands before the
\* lookup of a mutex operation and another before that of a semaphore one
C33_Witness ==
    \E t \in Procs :
        /\ pc[t] = "join_wait"
        /\ \E u \in Procs : pc[u] \in {"lock_lock", "unlock_lock"}
        /\ \E u \in Procs : pc[u] \in {"wait_lock", "signal_lock"}

\* the ids a sequence of returned handles holds
Handles(ids) == {ids[i] : i \in DOMAIN ids}

\* the registry holds every handle the creates of its kind have returned, and
\* as many entries as creates have succeeded
HoldsAllIssued(map, ids) ==
    /\ DOMAIN map = Handles(ids)
    /\ Cardinality(DOMAIN map) = Len(ids)

\* C34: mutex and semaphore entries are never removed: each registry holds
\* exactly the handles its creates have returned, one entry per successful
\* create, and no step takes a key out of either.
C34_MutexesAndSemaphoresStay ==
    /\ [](/\ HoldsAllIssued(mutexes, issued.mutexes)
          /\ HoldsAllIssued(semaphores, issued.semaphores))
    /\ [][/\ DOMAIN mutexes \subseteq DOMAIN mutexes'
          /\ DOMAIN semaphores \subseteq DOMAIN semaphores']_vars

\* a mutex and a semaphore still resolve after an unlockMutex returned true
\* and after a thread handle was joined or detached away
C34_Witness ==
    /\ Found(mutexes, 1)
    /\ Found(semaphores, 1)
    /\ last.name = "unlockMutex"
    /\ last.val = TRUE
    /\ \E h \in ThreadIds : consumed[h] # <<>> /\ ~Found(threads, h)

\* thread t calls signalSemaphore with a count of 0 or less
SignalsNothing(t) ==
    /\ pc[t] = "idle"
    /\ \/ /\ op'[t].name = "signalSemaphore"
          /\ op'[t].count <= 0
       \/ /\ last'.name = "signalSemaphore"
          /\ last'.thread = t
          /\ last'.call.count <= 0

\* C35: signalSemaphore with count <= 0 returns -1 in the step of the call,
\* without waiting for the global lock, and changes no registry, no counter
\* and not the lock, whether the handle exists or not.
C35_SignalOfNothingReturnsAtOnce ==
    [][\A t \in Procs :
        SignalsNothing(t) =>
            /\ pc'[t] = "idle"
            /\ last'.name = "signalSemaphore"
            /\ last'.val = 0 - 1
            /\ last'.error = ""
            /\ registries' = registries
            /\ counters' = counters
            /\ globalMutex' = globalMutex]_vars

\* it has returned -1 for a registered handle while another thread holds the
\* global lock
C35_Witness ==
    /\ last.name = "signalSemaphore"
    /\ last.call.count <= 0
    /\ last.val = 0 - 1
    /\ Found(semaphores, last.call.semId)
    /\ globalMutex \in Procs \ {last.thread}

\* the caller asked for a blocking call: no timeout, or the number -1
AsksToBlock(argument) ==
    \/ ~argument.given
    \/ argument.wraps = 0 /\ argument.low = 0 - 1

\* thread t is inside lockMutex or waitSemaphore
LocksOrWaits(t) == op[t].name \in {"lockMutex", "waitSemaphore"}

\* C36: lockMutex and waitSemaphore take the blocking path exactly when the
\* timeout is absent or is the number -1; with every other number they take
\* the timed path, on which the attempt on the mutex or the semaphore is
\* never left waiting.
C36_OnlyMinusOneBlocks ==
    \A t \in Procs :
        LocksOrWaits(t) =>
            IF AsksToBlock(op[t].argument)
            THEN op[t].timeout = InfiniteTimeout
            ELSE /\ pc[t] # "lock_hung"
                 /\ pc[t] = "lock_wait" => ENABLED LockMutexWait(t)
                 /\ pc[t] = "wait_native" => ENABLED WaitSemaphoreNative(t)

NanosecondsPerSecond == 1000 * 1000000

ValidTimespec(ts) == 0 <= ts.tv_nsec /\ ts.tv_nsec < NanosecondsPerSecond

\* the valid timespec that is timeout milliseconds after now
After(now, timeout) ==
    LET nsec == now.tv_nsec + (timeout % 1000) * 1000000 IN
    [tv_sec |-> now.tv_sec + (timeout \div 1000) + (nsec \div NanosecondsPerSecond),
     tv_nsec |-> nsec % NanosecondsPerSecond]

\* C37: for every timeout >= 0 and every valid clock value, the deadline the
\* POSIX timed wait hands to sem_timedwait is a valid timespec and is the
\* clock value plus the timeout.
C37_DeadlineIsValid ==
    (deadline.pc = "sem_timedwait" /\ deadline.timeout >= 0
                                   /\ ValidTimespec(deadline.now)) =>
        /\ ValidTimespec(deadline.ts)
        /\ deadline.ts = After(deadline.now, deadline.timeout)

====
